---- MODULE Spec2Model ----
(***************************************************************************)
(* Connection lifecycle of InngestService (src/services/inngest.service.ts)*)
(* as a state machine: establishConnection, the two shutdown triggers      *)
(* funnelling into gracefulShutdown, the timers of onModuleInit and of the *)
(* shutdown race, and the worker-connection handles owned by the external  *)
(* inngest/connect client.                                                 *)
(*                                                                         *)
(* Execution model: one event loop.  Every action is one run-to-suspension *)
(* piece of a handler (from its entry or from the await it resumes at, up  *)
(* to the next await or the return), or one event of the environment       *)
(* (a promise of the handle settling, a timer expiring).                   *)
(***************************************************************************)
EXTENDS Integers, FiniteSets, Sequences, TLC

\* ---- bounds of the model ----
MaxEstablish == 1      \* manual establishConnection() invocations
MaxShutdown == 2       \* invocations of the shutdown triggers
MaxHeartbeats == 3     \* largest pendingHeartbeats a probe reads
MaxThrowing == 2       \* accessors of one probe that throw
MaxWarnings == 2       \* warnings counted before health calls stop being counted
MaxChecks == 3         \* checkHealth() invocations

\* ---- program constants ----
DefaultShutdownTimeout == 30000
InitDelay == 1000
ConfiguredShutdownTimeout == 60000

NoValue == "undefined"
\* the null handle reference; handles are numbered from 0
Null == -1
\* an option is a sequence: empty when the option is not set
Unset == <<>>
Modes == {"serve", "connect"}
ConfiguredTimeouts == {Unset, <<ConfiguredShutdownTimeout>>}
ConnectionStates == {"CONNECTING", "ACTIVE", "PAUSED", "RECONNECTING", "CLOSING", "CLOSED"}
\* the signal argument of onApplicationShutdown(signal?)
Signals == {NoValue, "SIGTERM"}

\* Slot 0 is the establishConnection() call made by onModuleInit's timer,
\* slots 1..MaxEstablish are calls made by the application.  The handle a
\* call obtains from connect() carries the number of that call.
AutoSlot == 0
EstSlots == 0..MaxEstablish
ManualSlots == 1..MaxEstablish
HandleIds == EstSlots
SdSlots == 1..MaxShutdown
HcSlots == 1..MaxChecks

VARIABLES
  options,                        \* InngestModuleOptions (mode, disableAutoRegistration, connect.shutdownTimeout)
  importable,                     \* whether import('inngest/connect') succeeds in this installation
  connectModule,                  \* module-level holder: TRUE once the connect module is loaded
  workerConnection,               \* this.workerConnection: Null or a handle
  isShuttingDown,                 \* this.isShuttingDown
  hasLoggedInternalCheckWarning,  \* this.hasLoggedInternalCheckWarning
  handles,                        \* the WorkerConnection objects of the external client
  sdkState,                       \* this.workerConnection?.state: NoValue while no handle is held
  est,                            \* establishConnection() invocations
  sd,                             \* shutdown-trigger invocations
  timers,                         \* armed setTimeout timers
  initialized,                    \* onModuleInit has run
  logs,                           \* what the logger has been given: <<level, message>> (metadata left out)
  warnCount,                      \* how often the internal-check warning has been logged
  probe,                          \* what the internals of the held handle read as (health specification)
  health,                         \* the last getConnectionHealth() call: its inputs and what it returned
  inngestClient,                  \* InngestService.inngestClient: whether getClient() returns a client
  functions,                      \* InngestService.functions.length
  healthCheckInProgress,          \* InngestHealthService.healthCheckInProgress
  lastHealthCheck,                \* InngestHealthService.lastHealthCheck: Unset or <<SystemHealth>>
  hc,                             \* checkHealth() invocations
  memory,                         \* options.performance.memoryLimit and process.memoryUsage().rss
  faults,                         \* what the collaborator of each check does when the check calls it
  inngestService,                 \* InngestHealthIndicator.inngestService: whether a service was injected
  observed                        \* the last call of readiness, status or indicator: what it returned

vars == <<options, importable, connectModule, workerConnection, sdkState, isShuttingDown,
          hasLoggedInternalCheckWarning, handles, est, sd, timers, initialized, logs,
          warnCount, probe, health,
          inngestClient, functions, healthCheckInProgress, lastHealthCheck, hc, memory, faults,
          inngestService, observed>>

\* the state of InngestHealthService and what its checks read
aggregator == <<inngestClient, functions, healthCheckInProgress, lastHealthCheck, hc, memory, faults>>

\* the indicator's reference to the service and the record of the last observer call
observers == <<inngestService, observed>>

\* what no lifecycle operation writes: the configuration, and the probe and the
\* call record of the health specification
config == <<options, importable, probe, health, aggregator, observers>>

FreshHandle == [issued |-> FALSE, closeCalls |-> 0,
                closeP |-> "none", closed |-> "pending"]
IdleEst == [pc |-> "idle", result |-> "none"]
IdleSd == [pc |-> "idle", target |-> Null, awaiting |-> Null,
           race |-> "none", result |-> "none", raised |-> FALSE]

\* ---- observers ----

GetConnectionStateNoDefault(mode, state) ==
  IF mode # "connect" THEN "NOT_APPLICABLE" ELSE state

\* getConnectionState(): `state` is the value of this.workerConnection?.state
GetConnectionState(mode, state) ==
  IF mode # "connect" THEN "NOT_APPLICABLE"
  ELSE IF state = NoValue THEN "CLOSED" ELSE state

ConnectionState == GetConnectionState(options.mode, sdkState)

ConnectionHealthSummaryPausedUnhealthy(mode, state) ==
  IF mode # "connect" THEN "healthy"
  ELSE IF state = "ACTIVE" THEN "healthy"
  ELSE IF state \in {"CONNECTING", "RECONNECTING"} THEN "degraded"
  ELSE "unhealthy"

\* the status of InngestHealthService.getConnectionHealth(): `state` is what
\* getConnectionState() returns
ConnectionHealthSummary(mode, state) ==
  IF mode # "connect" THEN "healthy"
  ELSE IF state = "ACTIVE" THEN "healthy"
  ELSE IF state \in {"CONNECTING", "RECONNECTING", "PAUSED"} THEN "degraded"
  ELSE "unhealthy"

IsConnectedWhenHeld(mode, state) ==
  IF mode # "connect" THEN FALSE ELSE state # NoValue

\* isConnected(): `state` is the value of this.workerConnection?.state, compared
\* with ConnectionStateEnum?.ACTIVE ?? 'ACTIVE'
IsConnected(mode, state) ==
  IF mode # "connect" THEN FALSE ELSE state = "ACTIVE"

\* what this.workerConnection?.state reads after the reference changed from
\* `old` to `new`: undefined for null, ACTIVE for the handle connect() just
\* returned, unchanged when the reference is unchanged
StateThrough(old, new, state) ==
  IF new = Null THEN NoValue ELSE IF new = old THEN state ELSE "ACTIVE"

\* ---- getConnectionHealth ----

\* WebSocketReadyState.OPEN
WsOpen == 1
\* pendingHeartbeats >= 2 is a heartbeat failure
HeartbeatFailureThreshold == 2
WS_STATE_NAMES == <<"CONNECTING", "OPEN", "CLOSING", "CLOSED">>

\* A probe is what the internals of the held handle read as at the moment of a
\* health call: which accessors throw, and what the others return (an empty
\* sequence is undefined/null).
Accessors == {"connectionId", "currentConnection", "ws", "readyState", "pendingHeartbeats", "id"}
HealthyProbe == [throws |-> {}, currentConnection |-> TRUE, ws |-> TRUE, readyState |-> <<WsOpen>>,
                 pendingHeartbeats |-> <<0>>, connectionId |-> <<"conn-1">>, id |-> <<"conn-1">>]
\* the shapes the lifecycle model reads the handle in
LifecycleProbes ==
  { HealthyProbe,
    [HealthyProbe EXCEPT !.readyState = <<3>>],
    [HealthyProbe EXCEPT !.pendingHeartbeats = <<HeartbeatFailureThreshold>>],
    [HealthyProbe EXCEPT !.ws = FALSE, !.readyState = <<>>],
    [HealthyProbe EXCEPT !.currentConnection = FALSE, !.throws = {"connectionId"}],
    [HealthyProbe EXCEPT !.throws = {"connectionId", "currentConnection"}],
    [HealthyProbe EXCEPT !.throws = {"pendingHeartbeats"}] }

\* a reason string: its fixed text and the values interpolated into it
Reason(text, state, count) == [text |-> text, state |-> state, count |-> count]

Coalesce(a, b) == IF a # <<>> THEN a ELSE b

\* WS_STATE_NAMES[wsReadyState] ?? null
WsStateName(rs) == IF rs + 1 \in DOMAIN WS_STATE_NAMES THEN <<WS_STATE_NAMES[rs + 1]>> ELSE <<>>

GlobalFallbackAssumesHealthy(state, connectionId) ==
  [isHealthy |-> TRUE,
   reason |-> Reason("Connection appears active (internal check unavailable)", NoValue, <<>>),
   sdkState |-> state, wsReadyState |-> <<>>, wsStateName |-> <<>>, pendingHeartbeats |-> <<>>,
   connectionId |-> connectionId, usingInternalCheck |-> FALSE]

\* the catch block of getConnectionHealth: the state-only verdict
GlobalFallback(state, connectionId) ==
  [isHealthy |-> state = "ACTIVE",
   reason |-> IF state = "ACTIVE" THEN Reason("Connection appears active (internal check unavailable)", NoValue, <<>>)
              ELSE Reason("Connection state is (internal check unavailable)", state, <<>>),
   sdkState |-> state, wsReadyState |-> <<>>, wsStateName |-> <<>>, pendingHeartbeats |-> <<>>,
   connectionId |-> connectionId, usingInternalCheck |-> FALSE]

HealthCatchRethrows(state, connectionId) ==
  [raised |-> TRUE, threw |-> TRUE, verdict |-> GlobalFallback(state, connectionId)]

\* the try/catch around the deep inspection: the exception ends in the fallback verdict
HealthCatch(state, connectionId) ==
  [raised |-> FALSE, threw |-> TRUE, verdict |-> GlobalFallback(state, connectionId)]

IdentifierReadUnguarded(held, p) == IF held THEN p.connectionId ELSE <<>>

\* the guarded read of this.workerConnection?.connectionId: null when the getter throws
IdentifierRead(held, p) ==
  IF held /\ "connectionId" \notin p.throws THEN p.connectionId ELSE <<>>

ConnectionPresentIfHeld(held, p) == held

\* conn?.currentConnection is truthy
ConnectionPresent(held, p) == held /\ p.currentConnection

ReadyStateReadAssumesOpen(p) == IF p.ws THEN p.readyState ELSE <<WsOpen>>

\* ws?.readyState: undefined when ws is missing
ReadyStateRead(p) == IF p.ws THEN p.readyState ELSE <<>>

TransportOpenUnlessClosed(rs) == rs # 3

\* wsReadyState === WebSocketReadyState.OPEN
TransportOpen(rs) == rs = WsOpen

HeartbeatsFailingAboveThreshold(hb) == hb # <<>> /\ hb[1] > HeartbeatFailureThreshold

\* typeof pendingHeartbeats === 'number' && pendingHeartbeats >= 2
HeartbeatsFailing(hb) == hb # <<>> /\ hb[1] >= HeartbeatFailureThreshold

StateIsActiveOrReconnecting(state) == state \in {"ACTIVE", "RECONNECTING"}

\* sdkState === activeState, the last step of the deep inspection
StateIsActive(state) == state = "ACTIVE"

InspectsConnectionAlways(mode) == TRUE

\* the first guard of getConnectionHealth: only connect mode has a connection to inspect
InspectsConnection(mode) == mode = "connect"

\* getConnectionHealth(): the verdict, and whether the deep inspection threw.
\* `wc` is this.workerConnection, `rawState` this.workerConnection?.state,
\* `p` the probe of the held handle.
GetConnectionHealth(mode, wc, rawState, p) ==
  IF ~InspectsConnection(mode)
    THEN [raised |-> FALSE, threw |-> FALSE,
          verdict |-> [isHealthy |-> TRUE, reason |-> Reason("Running in serve mode (HTTP webhooks)", NoValue, <<>>),
                       sdkState |-> "NOT_APPLICABLE", wsReadyState |-> <<>>, wsStateName |-> <<>>,
                       pendingHeartbeats |-> <<>>, connectionId |-> <<>>, usingInternalCheck |-> FALSE]]
    ELSE
      LET state == IF rawState = NoValue THEN "CLOSED" ELSE rawState
          held == wc # Null
          connectionId == IdentifierRead(held, p)
          T(a) == a \in p.throws
          cc == ConnectionPresent(held, p)
          rs == ReadyStateRead(p)
          id == Coalesce(p.id, connectionId)
          Deep(v) == [raised |-> FALSE, threw |-> FALSE, verdict |-> v]
          Threw == HealthCatch(state, connectionId)
      IN IF held /\ T("currentConnection") THEN Threw
         ELSE IF ~cc
           THEN Deep([isHealthy |-> FALSE,
                      reason |-> Reason("No active connection (currentConnection is null)", NoValue, <<>>),
                      sdkState |-> state, wsReadyState |-> <<>>, wsStateName |-> <<>>,
                      pendingHeartbeats |-> <<>>, connectionId |-> <<>>, usingInternalCheck |-> TRUE])
         ELSE IF T("ws") \/ (p.ws /\ T("readyState")) THEN Threw
         ELSE IF rs = <<>>
           THEN IF T("id") THEN Threw
                ELSE Deep([isHealthy |-> state = "ACTIVE",
                           reason |-> IF state = "ACTIVE"
                                        THEN Reason("Connection appears active (WebSocket state not accessible)", NoValue, <<>>)
                                        ELSE Reason("Connection state is (WebSocket state not accessible)", state, <<>>),
                           sdkState |-> state, wsReadyState |-> <<>>, wsStateName |-> <<>>,
                           pendingHeartbeats |-> <<>>, connectionId |-> id, usingInternalCheck |-> FALSE])
         ELSE IF ~TransportOpen(rs[1])
           THEN IF T("pendingHeartbeats") \/ T("id") THEN Threw
                ELSE Deep([isHealthy |-> FALSE,
                           reason |-> Reason("WebSocket is (expected OPEN)", Coalesce(WsStateName(rs[1]), <<"null">>)[1], <<>>),
                           sdkState |-> state, wsReadyState |-> rs, wsStateName |-> WsStateName(rs[1]),
                           pendingHeartbeats |-> p.pendingHeartbeats, connectionId |-> id,
                           usingInternalCheck |-> TRUE])
         ELSE IF T("pendingHeartbeats") THEN Threw
         ELSE IF HeartbeatsFailing(p.pendingHeartbeats)
           THEN IF T("id") THEN Threw
                ELSE Deep([isHealthy |-> FALSE,
                           reason |-> Reason("Heartbeat failure (consecutive heartbeats missed)", NoValue, p.pendingHeartbeats),
                           sdkState |-> state, wsReadyState |-> rs, wsStateName |-> WsStateName(rs[1]),
                           pendingHeartbeats |-> p.pendingHeartbeats, connectionId |-> id,
                           usingInternalCheck |-> TRUE])
         ELSE IF T("id") THEN Threw
         ELSE IF ~StateIsActive(state)
           THEN Deep([isHealthy |-> FALSE, reason |-> Reason("Connection state is", state, <<>>),
                      sdkState |-> state, wsReadyState |-> rs, wsStateName |-> WsStateName(rs[1]),
                      pendingHeartbeats |-> p.pendingHeartbeats, connectionId |-> id,
                      usingInternalCheck |-> TRUE])
           ELSE Deep([isHealthy |-> TRUE, reason |-> Reason("Connection is active and healthy", NoValue, <<>>),
                      sdkState |-> state, wsReadyState |-> rs, wsStateName |-> WsStateName(rs[1]),
                      pendingHeartbeats |-> p.pendingHeartbeats, connectionId |-> id,
                      usingInternalCheck |-> TRUE])

\* ---- InngestHealthService (src/health/health.service.ts) ----

\* options.performance.memoryLimit as the configuration schema admits it (MB)
DefaultMemoryLimit == 512
MinMemoryLimit == 128
ConfiguredMemoryLimit == 200
MemoryLimits == {Unset, <<MinMemoryLimit>>, <<ConfiguredMemoryLimit>>}

\* What a collaborator of a check does when called: it returns, throws an
\* Error, or throws a value without a message (null, undefined).
Faults == {"none", "error", "nullish"}
ErrorMessage == "collaborator failed"
TypeErrorMessage == "Cannot read properties of null (reading 'message')"

\* a HealthCheckResult: status, message, and details.error where there is one
Result(status, message, error) == [status |-> status, message |-> message, error |-> error]
\* a settled promise of Promise.allSettled
Fulfilled(value) == [status |-> "fulfilled", value |-> value, reason |-> <<>>]
Rejected(reason) == [status |-> "rejected", value |-> Result("none", "none", <<>>), reason |-> <<reason>>]
Pending == [status |-> "pending", value |-> Result("none", "none", <<>>), reason |-> <<>>]

\* An async check whose try block threw: the catch reads error.message, which
\* throws a TypeError when the thrown value is null or undefined, and the
\* promise of the check rejects with it.
Caught(fault, prefix) ==
  IF fault = "nullish" THEN Rejected(TypeErrorMessage)
  ELSE Fulfilled(Result("unhealthy", prefix, <<ErrorMessage>>))

\* checkInngestConnectivity() up to its await: settled, or Pending at client.send()
CheckInngestConnectivity(fault, client) ==
  IF fault # "none" THEN Caught(fault, "Inngest connectivity check failed:")
  ELSE IF ~client THEN Fulfilled(Result("unhealthy", "Inngest client not available", <<>>))
  ELSE Pending

SendOutcomes == {"resolved", "rejected", "rejected_nullish"}

AfterSendIgnoresRejection(outcome) ==
  Fulfilled(Result("healthy", "Inngest connectivity is healthy", <<>>))

\* checkInngestConnectivity() from the await of client.send() on
AfterSend(outcome) ==
  IF outcome = "resolved" THEN Fulfilled(Result("healthy", "Inngest connectivity is healthy", <<>>))
  ELSE IF outcome = "rejected"
    THEN Fulfilled(Result("unhealthy", "Cannot connect to Inngest server", <<ErrorMessage>>))
  ELSE Fulfilled(Result("unhealthy", "Inngest connectivity check failed:", <<TypeErrorMessage>>))

\* checkFunctionRegistration(): `count` is getFunctions().length
CheckFunctionRegistration(fault, count) ==
  IF fault # "none" THEN Caught(fault, "Function registration check failed:")
  ELSE IF count = 0 THEN Fulfilled(Result("degraded", "No functions registered", <<>>))
  ELSE Fulfilled(Result("healthy", "Functions are properly registered", <<>>))

\* this.options.performance?.memoryLimit || 512
MemoryLimit(limit) == IF limit = Unset \/ limit[1] = 0 THEN DefaultMemoryLimit ELSE limit[1]

\* Resident memory is counted in tenths of a MB, so that 90% of every limit is
\* a whole number: rssMB > memoryLimitMB * 0.9 and rssMB > memoryLimitMB * 0.75
CriticalAtNinety(rss, limitMB) == rss >= 9 * limitMB

Critical(rss, limitMB) == rss > 9 * limitMB

ElevatedAtThreeQuarters(rss, limitMB) == 2 * rss >= 15 * limitMB

Elevated(rss, limitMB) == 2 * rss > 15 * limitMB

\* checkMemoryUsage(): `rss` is process.memoryUsage().rss in tenths of a MB
CheckMemoryUsage(fault, limit, rss) ==
  IF fault # "none" THEN Caught(fault, "Memory check failed:")
  ELSE IF Critical(rss, MemoryLimit(limit))
    THEN Fulfilled(Result("unhealthy", "Memory usage is critically high", <<>>))
  ELSE IF Elevated(rss, MemoryLimit(limit))
    THEN Fulfilled(Result("degraded", "Memory usage is elevated", <<>>))
  ELSE Fulfilled(Result("healthy", "Memory usage is healthy", <<>>))

GetCheckResultDropsError(settled, fallbackMessage) ==
  IF settled.status = "fulfilled" THEN settled.value
  ELSE Result("unhealthy", fallbackMessage, <<>>)

\* getCheckResult(): a rejected check becomes an unhealthy result with the
\* fallback message and the reason's message in details.error
GetCheckResult(settled, fallbackMessage) ==
  IF settled.status = "fulfilled" THEN settled.value
  ELSE Result("unhealthy", fallbackMessage, settled.reason)

OverallDegradedFirst(statuses) ==
  IF "degraded" \in statuses THEN "degraded"
  ELSE IF "unhealthy" \in statuses THEN "unhealthy" ELSE "healthy"

\* the overall status of checkHealth: `statuses` are those of the three checks
Overall(statuses) ==
  IF "unhealthy" \in statuses THEN "unhealthy"
  ELSE IF "degraded" \in statuses THEN "degraded" ELSE "healthy"

\* A SystemHealth.  `by` stands for metadata.timestamp and for the identity of
\* the object: the checkHealth() invocation that built it.
SystemHealth(inngest, fns, mem, by) ==
  [overall |-> Overall({inngest.status, fns.status, mem.status}),
   checks |-> [inngest |-> inngest, functions |-> fns, memory |-> mem],
   by |-> by]

\* createUnhealthyResponse(): every check "Not checked"
CreateUnhealthyResponse(by) ==
  [overall |-> "unhealthy",
   checks |-> [inngest |-> Result("unhealthy", "Not checked", <<>>),
               functions |-> Result("unhealthy", "Not checked", <<>>),
               memory |-> Result("unhealthy", "Not checked", <<>>)],
   by |-> by]

\* the three results and the SystemHealth of lines 76-105
Aggregate(checks, by) ==
  SystemHealth(GetCheckResult(checks.inngest, "Inngest connectivity check failed"),
               GetCheckResult(checks.functions, "Functions check failed"),
               GetCheckResult(checks.memory, "Memory check failed"), by)

NoChecks == [inngest |-> Pending, functions |-> Pending, memory |-> Pending]
\* a checkHealth() invocation: where it is, whether it launched the checks, how
\* its client.send() settled, the three promises, and how it ended
IdleHc == [pc |-> "idle", fanout |-> FALSE, send |-> "none", checks |-> NoChecks,
           returned |-> Unset, threw |-> FALSE, raised |-> FALSE]
Checks == {"inngest", "functions", "memory"}
NoFaults == [c \in Checks |-> "none"]

AggregatorIdle ==
  /\ inngestClient = TRUE
  /\ functions = 1
  /\ healthCheckInProgress = FALSE
  /\ lastHealthCheck = Unset
  /\ hc = [i \in HcSlots |-> IdleHc]
  /\ memory = [limit |-> Unset, rss |-> 0]
  /\ faults = NoFaults

\* the record of a health call: the coarse state and the flag it found, whether
\* it raised, whether its deep inspection threw, and the verdict it returned
NoCall == [called |-> FALSE, tick |-> 0, rawState |-> NoValue, warned |-> FALSE, raised |-> FALSE,
           threw |-> FALSE, verdict |-> GlobalFallback(NoValue, <<>>)]

\* the record of an observer call: which one, the status it returned (up/down
\* for the indicator, true/false for the boolean isHealthy()), its message, the
\* connection state and the diagnostics it reported, and whether it raised
Observation(op, status, message, connectionState, diagnostics) ==
  [op |-> op, status |-> status, message |-> message, connectionState |-> connectionState,
   diagnostics |-> diagnostics, raised |-> FALSE]

NoObservation == Observation("none", "none", Reason("none", NoValue, <<>>), <<>>, <<>>)

ObserversIdle ==
  /\ inngestService = TRUE
  /\ observed = NoObservation

Init ==
  /\ options \in [mode : Modes, disableAutoRegistration : BOOLEAN, shutdownTimeout : ConfiguredTimeouts]
  /\ importable \in BOOLEAN
  /\ connectModule = FALSE
  /\ workerConnection = Null
  /\ isShuttingDown = FALSE
  /\ hasLoggedInternalCheckWarning = FALSE
  /\ handles = [h \in HandleIds |-> FreshHandle]
  /\ sdkState = NoValue
  /\ est = [e \in EstSlots |-> IdleEst]
  /\ sd = [i \in SdSlots |-> IdleSd]
  /\ timers = {}
  /\ initialized = FALSE
  /\ logs = {}
  /\ warnCount = 0
  /\ probe = HealthyProbe
  /\ health = NoCall
  /\ AggregatorIdle
  /\ ObserversIdle

\* ---- establishConnection ----

\* the two early returns of establishConnection
EstablishRefused(shuttingDown, mode) == shuttingDown \/ mode # "connect"

StoredHandleDropped(returned, current) == current

\* this.workerConnection = await connect(...)
StoredHandle(returned, current) == returned

EstablishFailureClears(e, current) == Null

\* the catch block of establishConnection leaves this.workerConnection alone
HandleAfterEstablishFailure(e, current) == current

\* establishConnection() from its entry to its first await (or early return)
EstablishEntry(e) ==
  /\ est[e].pc = "idle"
  /\ IF EstablishRefused(isShuttingDown, options.mode)
       THEN /\ est' = [est EXCEPT ![e] = [pc |-> "done", result |-> "refused"]]
            /\ logs' = logs \cup {<<"warn", IF isShuttingDown THEN "Cannot establish connection: service is shutting down"
                                                 ELSE "establishConnection() called but mode is not connect">>}
       ELSE /\ est' = [est EXCEPT ![e] = [pc |-> IF connectModule THEN "connecting" ELSE "importing",
                                           result |-> "none"]]
            /\ logs' = IF connectModule THEN logs \cup {<<"log", "Establishing Inngest worker connection">>} ELSE logs
  /\ UNCHANGED <<config, warnCount, connectModule, workerConnection, sdkState, isShuttingDown,
                 hasLoggedInternalCheckWarning, handles, sd, initialized>>

\* establishConnection() called by the application
EstablishConnection(e) ==
  /\ e \in ManualSlots
  /\ \A f \in ManualSlots : f < e => est[f].pc # "idle"
  /\ EstablishEntry(e)
  /\ UNCHANGED timers

\* await import('inngest/connect') settles
ImportSettles(e) ==
  /\ est[e].pc = "importing"
  /\ IF importable
       THEN /\ connectModule' = TRUE
            /\ est' = [est EXCEPT ![e].pc = "connecting"]
            /\ logs' = logs \cup {<<"log", "Establishing Inngest worker connection">>}
            /\ UNCHANGED <<workerConnection, sdkState>>
       ELSE /\ est' = [est EXCEPT ![e] = [pc |-> "done", result |-> "raised"]]
            /\ logs' = logs \cup {<<"error", "Failed to import inngest/connect">>,
                                  <<"error", "Failed to establish Inngest connection">>}
            /\ workerConnection' = HandleAfterEstablishFailure(e, workerConnection)
            /\ sdkState' = StateThrough(workerConnection, workerConnection', sdkState)
            /\ UNCHANGED connectModule
  /\ UNCHANGED <<config, warnCount, isShuttingDown, hasLoggedInternalCheckWarning, handles, sd,
                 timers, initialized>>

\* connect() resolves with a handle; the client hands it over in state ACTIVE
ConnectResolves(e) ==
  /\ est[e].pc = "connecting"
  /\ handles' = [handles EXCEPT ![e].issued = TRUE]
  /\ workerConnection' = StoredHandle(e, workerConnection)
  /\ sdkState' = StateThrough(workerConnection, workerConnection', sdkState)
  /\ est' = [est EXCEPT ![e] = [pc |-> "done", result |-> "stored"]]
  /\ logs' = logs \cup {<<"log", "Inngest worker connection established">>}
  /\ UNCHANGED <<config, warnCount, connectModule, isShuttingDown, hasLoggedInternalCheckWarning, sd,
                 timers, initialized>>

\* connect() rejects
ConnectRejects(e) ==
  /\ est[e].pc = "connecting"
  /\ workerConnection' = HandleAfterEstablishFailure(e, workerConnection)
  /\ sdkState' = StateThrough(workerConnection, workerConnection', sdkState)
  /\ est' = [est EXCEPT ![e] = [pc |-> "done", result |-> "raised"]]
  /\ logs' = logs \cup {<<"error", "Failed to establish Inngest connection">>}
  /\ UNCHANGED <<config, warnCount, connectModule, isShuttingDown, hasLoggedInternalCheckWarning, handles, sd,
                 timers, initialized>>

\* ---- gracefulShutdown ----

ShutdownProceedsUnguarded(mode, wc, shuttingDown) ==
  ~(mode # "connect" \/ wc = Null)

\* the guard of gracefulShutdown: FALSE is the early return
ShutdownProceeds(mode, wc, shuttingDown) ==
  ~(mode # "connect" \/ wc = Null \/ shuttingDown)

ShutdownTimeoutIgnoresOption(configured) == DefaultShutdownTimeout

\* this.options.connect?.shutdownTimeout ?? 30000
ShutdownTimeout(configured) ==
  IF configured = Unset THEN DefaultShutdownTimeout ELSE configured[1]

ShutdownCatchRethrows(reason) == [raised |-> TRUE, result |-> "failed"]

\* the catch block of gracefulShutdown: warn, do not rethrow
ShutdownCatch(reason) == [raised |-> FALSE, result |-> "warned"]

ShutdownFinallyOnSuccessOnly(result, wc) == IF result = "graceful" THEN Null ELSE wc

\* the finally block of gracefulShutdown
ShutdownFinally(result, wc) == Null

FlagAfterShutdownCleared(shuttingDown) == FALSE

\* gracefulShutdown never writes isShuttingDown again after line 239
FlagAfterShutdown(shuttingDown) == shuttingDown

\* gracefulShutdown(reason) from its entry to the early return or to
\* `await Promise.race([closePromise, timeoutPromise])`
GracefulShutdown(i, reason) ==
  /\ sd[i].pc = "idle"
  /\ \A j \in SdSlots : j < i => sd[j].pc # "idle"
  /\ IF ~ShutdownProceeds(options.mode, workerConnection, isShuttingDown)
       THEN /\ sd' = [sd EXCEPT ![i] = [IdleSd EXCEPT !.pc = "done",
                                                       !.result = "noop"]]
            /\ UNCHANGED <<isShuttingDown, handles, timers, logs>>
       ELSE LET h == workerConnection
                settled == handles[h].closeP \in {"resolved", "rejected"}
            IN /\ isShuttingDown' = TRUE
               /\ handles' = [handles EXCEPT ![h].closeCalls = @ + 1,
                                             ![h].closeP = IF @ = "none" THEN "pending" ELSE @]
               /\ timers' = timers \cup {[kind |-> "shutdown", owner |-> i,
                                          delay |-> ShutdownTimeout(options.shutdownTimeout)]}
               /\ sd' = [sd EXCEPT ![i] = [IdleSd EXCEPT !.pc = "race", !.target = h,
                                             !.race = IF settled THEN handles[h].closeP ELSE "pending"]]
               /\ logs' = logs \cup {<<"log", "Initiating graceful shutdown of Inngest worker connection">>}
  /\ UNCHANGED <<config, warnCount, connectModule, workerConnection, sdkState, hasLoggedInternalCheckWarning,
                 est, initialized>>

\* onModuleDestroy(): await this.gracefulShutdown('module_destroy')
OnModuleDestroy(i) == GracefulShutdown(i, "module_destroy")

\* `signal_${signal || 'unknown'}`
SignalReason(signal) == IF signal = NoValue THEN "signal_unknown" ELSE "signal_SIGTERM"

\* onApplicationShutdown(signal?): await this.gracefulShutdown(`signal_...`)
OnApplicationShutdown(i, signal) == GracefulShutdown(i, SignalReason(signal))

\* the exit of gracefulShutdown through catch and finally
ShutdownFails(i, reason) ==
  LET c == ShutdownCatch(reason)
  IN /\ sd' = [sd EXCEPT ![i].pc = "done", ![i].result = c.result, ![i].raised = c.raised]
     /\ logs' = logs \cup {<<"warn", "Shutdown did not complete gracefully">>}
     /\ workerConnection' = ShutdownFinally(c.result, workerConnection)
     /\ sdkState' = StateThrough(workerConnection, workerConnection', sdkState)
     /\ isShuttingDown' = FlagAfterShutdown(isShuttingDown)

\* the exit of gracefulShutdown after `closed` resolved, through finally
ShutdownSucceeds(i) ==
  /\ sd' = [sd EXCEPT ![i].pc = "done", ![i].result = "graceful"]
  /\ logs' = logs \cup {<<"log", "Inngest worker connection closed gracefully">>}
  /\ workerConnection' = ShutdownFinally("graceful", workerConnection)
  /\ sdkState' = StateThrough(workerConnection, workerConnection', sdkState)
  /\ isShuttingDown' = FlagAfterShutdown(isShuttingDown)

\* gracefulShutdown resumes after the race settled: on rejection (close() rejected
\* or the timer fired first) it leaves through catch/finally, on resolution it goes on
\* to `await this.workerConnection.closed`, reading the handle reference again
AfterRace(i) ==
  /\ sd[i].pc = "race"
  /\ sd[i].race # "pending"
  /\ IF sd[i].race = "resolved"
       THEN IF workerConnection = Null
              THEN ShutdownFails(i, "TypeError")
              ELSE IF handles[workerConnection].closed = "resolved"
                     THEN ShutdownSucceeds(i)
                     ELSE /\ sd' = [sd EXCEPT ![i].pc = "closed", ![i].awaiting = workerConnection]
                          /\ UNCHANGED <<workerConnection, sdkState, isShuttingDown, logs>>
       ELSE ShutdownFails(i, sd[i].race)
  /\ UNCHANGED <<config, warnCount, connectModule, hasLoggedInternalCheckWarning, handles, est,
                 timers, initialized>>

\* gracefulShutdown resumes after `closed` resolved
AfterClosed(i) ==
  /\ sd[i].pc = "closed"
  /\ handles[sd[i].awaiting].closed = "resolved"
  /\ ShutdownSucceeds(i)
  /\ UNCHANGED <<config, warnCount, connectModule, hasLoggedInternalCheckWarning, handles, est,
                 timers, initialized>>

\* ---- onModuleInit and the timers ----

OnModuleInit ==
  /\ ~initialized
  /\ initialized' = TRUE
  /\ timers' = IF options.disableAutoRegistration THEN timers
               ELSE timers \cup {[kind |-> IF options.mode = "connect" THEN "establish" ELSE "register",
                                  owner |-> AutoSlot, delay |-> InitDelay]}
  /\ logs' = logs \cup {<<"log", "Initializing Inngest module">>}
  /\ UNCHANGED <<config, warnCount, connectModule, workerConnection, sdkState, isShuttingDown,
                 hasLoggedInternalCheckWarning, handles, est, sd>>

\* the callback of setTimeout in onModuleInit (connect mode): this.establishConnection()
EstablishTimerFires(tm) ==
  /\ tm \in timers /\ tm.kind = "establish"
  /\ timers' = timers \ {tm}
  /\ EstablishEntry(AutoSlot)

\* the callback of setTimeout in onModuleInit (serve mode): registerWithDevServer(),
\* which touches none of the connection state
RegisterTimerFires(tm) ==
  /\ tm \in timers /\ tm.kind = "register"
  /\ timers' = timers \ {tm}
  /\ logs' = logs \cup {<<"log", "registerWithDevServer">>}
  /\ UNCHANGED <<config, warnCount, connectModule, workerConnection, sdkState, isShuttingDown,
                 hasLoggedInternalCheckWarning, handles, est, sd, initialized>>

RaceAfterTimerLost(race) == race

\* Promise.race after the timer rejected: settled by it unless close() settled it before
RaceAfterTimer(race) == IF race = "pending" THEN "timeout" ELSE race

\* the callback of the shutdown timer: reject(new Error('Shutdown timeout exceeded'))
ShutdownTimerFires(tm) ==
  /\ tm \in timers /\ tm.kind = "shutdown"
  /\ timers' = timers \ {tm}
  /\ sd' = [sd EXCEPT ![tm.owner].race = RaceAfterTimer(@)]
  /\ UNCHANGED <<config, warnCount, connectModule, workerConnection, sdkState, isShuttingDown,
                 hasLoggedInternalCheckWarning, handles, est, initialized, logs>>

\* ---- the handle, as the external client drives it ----

SettleRace(h, outcome) ==
  [i \in SdSlots |-> IF sd[i].pc = "race" /\ sd[i].target = h /\ sd[i].race = "pending"
                       THEN [sd[i] EXCEPT !.race = outcome] ELSE sd[i]]

\* the promise returned by close() resolves
CloseResolves(h) ==
  /\ handles[h].closeP = "pending"
  /\ handles' = [handles EXCEPT ![h].closeP = "resolved"]
  /\ sd' = SettleRace(h, "resolved")
  /\ UNCHANGED <<config, warnCount, connectModule, workerConnection, sdkState, isShuttingDown,
                 hasLoggedInternalCheckWarning, est, timers, initialized, logs>>

\* the promise returned by close() rejects
CloseRejects(h) ==
  /\ handles[h].closeP = "pending"
  /\ handles' = [handles EXCEPT ![h].closeP = "rejected"]
  /\ sd' = SettleRace(h, "rejected")
  /\ UNCHANGED <<config, warnCount, connectModule, workerConnection, sdkState, isShuttingDown,
                 hasLoggedInternalCheckWarning, est, timers, initialized, logs>>

\* the handle's `closed` promise resolves
ClosedResolves(h) ==
  /\ handles[h].issued
  /\ handles[h].closed = "pending"
  /\ handles' = [handles EXCEPT ![h].closed = "resolved"]
  /\ UNCHANGED <<config, warnCount, connectModule, workerConnection, sdkState, isShuttingDown,
                 hasLoggedInternalCheckWarning, est, sd, timers, initialized, logs>>

\* the client moves the held handle to another coarse state
StateChanges(s) ==
  /\ workerConnection # Null
  /\ sdkState # s
  /\ sdkState' = s
  /\ UNCHANGED <<config, warnCount, connectModule, workerConnection, isShuttingDown,
                 hasLoggedInternalCheckWarning, handles, est, sd, timers, initialized, logs>>

WarnedAfterCatchUnset(warned, threw) == warned

\* hasLoggedInternalCheckWarning after a health call whose deep inspection threw or did not
WarnedAfterCatch(warned, threw) == warned \/ threw

\* what a health call with outcome r writes: the warn-once flag and the warning
HealthEffect(r) ==
  LET warns == r.threw /\ ~hasLoggedInternalCheckWarning
  IN /\ hasLoggedInternalCheckWarning' = WarnedAfterCatch(hasLoggedInternalCheckWarning, r.threw)
     /\ logs' = IF warns
                  THEN logs \cup {<<"warn", "Failed to access SDK internals for health check, falling back to state-only">>}
                  ELSE logs
     /\ warnCount' = IF warns /\ warnCount < MaxWarnings THEN warnCount + 1 ELSE warnCount

\* a call of getConnectionHealth() while the handle's internals read as p
GetConnectionHealthCall(p) ==
  /\ HealthEffect(GetConnectionHealth(options.mode, workerConnection, sdkState, p))
  /\ UNCHANGED <<config, connectModule, workerConnection, sdkState, isShuttingDown,
                 handles, est, sd, timers, initialized>>

Next ==
  \/ OnModuleInit
  \/ \E e \in ManualSlots : EstablishConnection(e)
  \/ \E e \in EstSlots : ImportSettles(e)
  \/ \E e \in EstSlots : ConnectResolves(e)
  \/ \E e \in EstSlots : ConnectRejects(e)
  \/ \E i \in SdSlots : OnModuleDestroy(i)
  \/ \E i \in SdSlots, signal \in Signals : OnApplicationShutdown(i, signal)
  \/ \E i \in SdSlots : AfterRace(i)
  \/ \E i \in SdSlots : AfterClosed(i)
  \/ \E tm \in timers : EstablishTimerFires(tm)
  \/ \E tm \in timers : RegisterTimerFires(tm)
  \/ \E tm \in timers : ShutdownTimerFires(tm)
  \/ \E h \in HandleIds : CloseResolves(h)
  \/ \E h \in HandleIds : CloseRejects(h)
  \/ \E h \in HandleIds : ClosedResolves(h)
  \/ \E s \in ConnectionStates : StateChanges(s)
  \/ \E p \in LifecycleProbes : GetConnectionHealthCall(p)

Spec == Init /\ [][Next]_vars

\* The event loop runs every continuation whose promise has settled and fires
\* every armed timer; nothing obliges the application to call anything or the
\* handle's promises to settle.
ShutdownTimerOf(i) == \E tm \in timers : tm.owner = i /\ ShutdownTimerFires(tm)

FairSpec ==
  /\ Spec
  /\ \A i \in SdSlots : WF_vars(AfterRace(i)) /\ WF_vars(AfterClosed(i)) /\ WF_vars(ShutdownTimerOf(i))
  /\ \A e \in EstSlots : WF_vars(ImportSettles(e))
  /\ WF_vars(\E tm \in timers : EstablishTimerFires(tm))
  /\ WF_vars(\E tm \in timers : RegisterTimerFires(tm))

\* ---- the health check on its own ----

\* WebSocketReadyState: CONNECTING, OPEN, CLOSING, CLOSED
ReadyStates == 0 .. 3
Optional(S) == {<<>>} \cup {<<x>> : x \in S}

\* Every shape the internals of a held handle can be read in. Fields the code
\* cannot reach (those of an absent currentConnection, the readyState of an
\* absent ws) are held at their HealthyProbe value.
Probes ==
  { p \in [throws : {t \in SUBSET Accessors : Cardinality(t) <= MaxThrowing},
           currentConnection : BOOLEAN, ws : BOOLEAN,
           readyState : Optional(ReadyStates),
           pendingHeartbeats : Optional(0 .. MaxHeartbeats),
           connectionId : Optional({"conn-1"}), id : Optional({"conn-2"})] :
      /\ ~p.currentConnection =>
            p.ws /\ p.readyState = <<WsOpen>> /\ p.pendingHeartbeats = <<0>> /\ p.id = <<>>
      /\ ~p.ws => p.readyState = <<>> }

\* The service right after construction (either mode), or in connect mode after
\* establishConnection() stored a handle: the handle's coarse state and its
\* internals are whatever the client has made of them since.
HInit ==
  /\ options \in [mode : Modes, disableAutoRegistration : {TRUE}, shutdownTimeout : {Unset}]
  /\ importable = TRUE
  /\ isShuttingDown = FALSE
  /\ hasLoggedInternalCheckWarning = FALSE
  /\ sd = [i \in SdSlots |-> IdleSd]
  /\ timers = {}
  /\ initialized = FALSE
  /\ warnCount = 0
  /\ health = NoCall
  /\ AggregatorIdle
  /\ ObserversIdle
  /\ \/ /\ workerConnection = Null
        /\ connectModule = FALSE
        /\ handles = [h \in HandleIds |-> FreshHandle]
        /\ sdkState = NoValue
        /\ est = [e \in EstSlots |-> IdleEst]
        /\ logs = {}
        /\ probe = HealthyProbe
     \/ /\ options.mode = "connect"
        /\ workerConnection = MaxEstablish
        /\ connectModule = TRUE
        /\ handles = [h \in HandleIds |-> IF h = MaxEstablish THEN [FreshHandle EXCEPT !.issued = TRUE]
                                                               ELSE FreshHandle]
        /\ sdkState \in ConnectionStates
        /\ est = [e \in EstSlots |-> IF e = MaxEstablish THEN [pc |-> "done", result |-> "stored"] ELSE IdleEst]
        /\ logs = {<<"log", "Establishing Inngest worker connection">>,
                   <<"log", "Inngest worker connection established">>}
        /\ probe \in Probes

HealthCheckClearsHandle ==
  LET r == GetConnectionHealth(options.mode, workerConnection, sdkState, probe)
  IN /\ HealthEffect(r)
     /\ health' = [called |-> TRUE, tick |-> 1 - health.tick, rawState |-> sdkState,
                   warned |-> hasLoggedInternalCheckWarning, raised |-> r.raised,
                   threw |-> r.threw, verdict |-> r.verdict]
     /\ workerConnection' = Null
     /\ UNCHANGED <<options, importable, probe, connectModule, sdkState,
                    isShuttingDown, handles, est, sd, timers, initialized, aggregator, observers>>

\* getConnectionHealth() on the handle as `probe` describes it; the call is recorded
HealthCheck ==
  LET r == GetConnectionHealth(options.mode, workerConnection, sdkState, probe)
  IN /\ HealthEffect(r)
     /\ health' = [called |-> TRUE, tick |-> 1 - health.tick, rawState |-> sdkState,
                   warned |-> hasLoggedInternalCheckWarning, raised |-> r.raised,
                   threw |-> r.threw, verdict |-> r.verdict]
     /\ UNCHANGED <<options, importable, probe, connectModule, workerConnection, sdkState,
                    isShuttingDown, handles, est, sd, timers, initialized, aggregator, observers>>

HNext ==
  \/ HealthCheck
  \/ \E s \in ConnectionStates : StateChanges(s)

HealthSpec == HInit /\ [][HNext]_vars

\* ---- checkHealth ----

ShortCircuitsNever(inProgress) == FALSE

\* the guard of checkHealth: TRUE is the early return
ShortCircuits(inProgress) == inProgress

ShortCircuitValueFresh(last, by) == <<CreateUnhealthyResponse(by)>>

\* this.lastHealthCheck || this.createUnhealthyResponse(...)
ShortCircuitValue(last, by) == Coalesce(last, <<CreateUnhealthyResponse(by)>>)

InProgressAfterCheckOnSuccessOnly(threw) == threw

\* the finally block of checkHealth
InProgressAfterCheck(threw) == FALSE

CacheAfterCheckClearsOnError(threw, last, computed) == IF threw THEN Unset ELSE <<computed>>

\* this.lastHealthCheck after the try block: assigned at line 107 unless the block threw
CacheAfterCheck(threw, last, computed) == IF threw THEN last ELSE <<computed>>

\* what checkHealth leaves alone: the connection side and what the checks read
HcFrame ==
  UNCHANGED <<options, importable, probe, health, connectModule, workerConnection, sdkState,
              isShuttingDown, hasLoggedInternalCheckWarning, handles, est, sd, timers,
              initialized, logs, warnCount, inngestClient, functions, memory, faults, observers>>

\* checkHealth() from its entry to its first await: the early return, or the
\* flag, the launch of the three checks and the await of Promise.allSettled
CheckHealth(i) ==
  /\ hc[i].pc = "idle"
  /\ \A j \in HcSlots : j < i => hc[j].pc # "idle"
  /\ IF ShortCircuits(healthCheckInProgress)
       THEN /\ hc' = [hc EXCEPT ![i] = [IdleHc EXCEPT !.pc = "done",
                                                      !.returned = ShortCircuitValue(lastHealthCheck, i)]]
            /\ UNCHANGED healthCheckInProgress
       ELSE /\ healthCheckInProgress' = TRUE
            /\ hc' = [hc EXCEPT ![i] =
                        [IdleHc EXCEPT !.pc = "awaiting", !.fanout = TRUE,
                           !.checks = [inngest |-> CheckInngestConnectivity(faults.inngest, inngestClient),
                                       functions |-> CheckFunctionRegistration(faults.functions, functions),
                                       memory |-> CheckMemoryUsage(faults.memory, memory.limit, memory.rss)]]]
  /\ UNCHANGED lastHealthCheck
  /\ HcFrame

\* client.send() of the connectivity check of invocation i settles
SendSettles(i, outcome) ==
  /\ hc[i].pc = "awaiting"
  /\ hc[i].checks.inngest.status = "pending"
  /\ hc' = [hc EXCEPT ![i].checks.inngest = AfterSend(outcome), ![i].send = outcome]
  /\ UNCHANGED <<healthCheckInProgress, lastHealthCheck>>
  /\ HcFrame

\* checkHealth() from the await of Promise.allSettled to its return: the
\* aggregation (which `throws` or not), the cache, the catch and the finally
CheckHealthResumes(i, throws) ==
  /\ hc[i].pc = "awaiting"
  /\ hc[i].checks.inngest.status # "pending"
  /\ LET computed == Aggregate(hc[i].checks, i)
     IN /\ lastHealthCheck' = CacheAfterCheck(throws, lastHealthCheck, computed)
        /\ hc' = [hc EXCEPT ![i].pc = "done", ![i].threw = throws,
                             ![i].returned = IF throws THEN <<CreateUnhealthyResponse(i)>>
                                                       ELSE <<computed>>]
  /\ healthCheckInProgress' = InProgressAfterCheck(throws)
  /\ HcFrame

\* the connection side of a service on which nothing is in progress: no handle
\* (either mode), or in connect mode the handle establishConnection() stored
Quiescent(states, probes) ==
  /\ options \in [mode : Modes, disableAutoRegistration : {TRUE}, shutdownTimeout : {Unset}]
  /\ importable = TRUE
  /\ isShuttingDown = FALSE
  /\ hasLoggedInternalCheckWarning = FALSE
  /\ sd = [i \in SdSlots |-> IdleSd]
  /\ timers = {}
  /\ initialized = FALSE
  /\ warnCount = 0
  /\ health = NoCall
  /\ \/ /\ workerConnection = Null
        /\ connectModule = FALSE
        /\ handles = [h \in HandleIds |-> FreshHandle]
        /\ sdkState = NoValue
        /\ est = [e \in EstSlots |-> IdleEst]
        /\ logs = {}
        /\ probe = HealthyProbe
     \/ /\ options.mode = "connect"
        /\ workerConnection = MaxEstablish
        /\ connectModule = TRUE
        /\ handles = [h \in HandleIds |-> IF h = MaxEstablish THEN [FreshHandle EXCEPT !.issued = TRUE]
                                                               ELSE FreshHandle]
        /\ sdkState \in states
        /\ est = [e \in EstSlots |-> IF e = MaxEstablish THEN [pc |-> "done", result |-> "stored"] ELSE IdleEst]
        /\ logs = {<<"log", "Establishing Inngest worker connection">>,
                   <<"log", "Inngest worker connection established">>}
        /\ probe \in probes

\* the handles the aggregator runs beside: healthy, transport CLOSED, heartbeats failing
AggregatorProbes ==
  { HealthyProbe,
    [HealthyProbe EXCEPT !.readyState = <<3>>],
    [HealthyProbe EXCEPT !.pendingHeartbeats = <<HeartbeatFailureThreshold>>] }

\* InngestHealthService right after construction, beside a service in any of
\* these shapes; every collaborator of the checks works and memory is low
AInit ==
  /\ Quiescent({"ACTIVE", "RECONNECTING"}, AggregatorProbes)
  /\ inngestClient = TRUE
  /\ functions \in {0, 1}
  /\ healthCheckInProgress = FALSE
  /\ lastHealthCheck = Unset
  /\ hc = [i \in HcSlots |-> IdleHc]
  /\ memory = [limit |-> Unset, rss |-> 0]
  /\ faults = NoFaults
  /\ ObserversIdle

ANext ==
  \/ \E i \in HcSlots : CheckHealth(i)
  \/ \E i \in HcSlots, outcome \in SendOutcomes : SendSettles(i, outcome)
  \/ \E i \in HcSlots, throws \in BOOLEAN : CheckHealthResumes(i, throws)

AggregatorSpec == AInit /\ [][ANext]_vars

\* resident memory (tenths of a MB) around 75% and 90% of every limit
RssSamples ==
  {0} \cup UNION { { (15 * L) \div 2 - 1, (15 * L) \div 2, (15 * L) \div 2 + 1, 9 * L - 1, 9 * L, 9 * L + 1 } :
                   L \in {MemoryLimit(l) : l \in MemoryLimits} }

\* one checkHealth() computation over everything its three checks can read
CInit ==
  /\ Quiescent({"ACTIVE"}, {HealthyProbe})
  /\ inngestClient = TRUE
  /\ functions \in {0, 1}
  /\ healthCheckInProgress = FALSE
  /\ lastHealthCheck = Unset
  /\ hc = [i \in HcSlots |-> IdleHc]
  /\ memory \in [limit : MemoryLimits, rss : RssSamples]
  /\ faults \in [Checks -> Faults]
  /\ ObserversIdle

CNext ==
  \/ CheckHealth(1)
  \/ \E outcome \in SendOutcomes : SendSettles(1, outcome)
  \/ \E throws \in BOOLEAN : CheckHealthResumes(1, throws)

ChecksSpec == CInit /\ [][CNext]_vars

\* ---- readiness, status and the terminus indicator ----

Fixed(text) == Reason(text, NoValue, <<>>)

\* the message of InngestHealthService.getConnectionHealth()
SummaryMessage(mode, state) ==
  IF mode # "connect" THEN Fixed("Serve mode - HTTP endpoint ready")
  ELSE IF state = "ACTIVE" THEN Fixed("WebSocket connection active")
  ELSE IF state \in {"CONNECTING", "RECONNECTING", "PAUSED"} THEN Reason("Connection state:", state, <<>>)
  ELSE Fixed("Connection not active")

ReadinessIgnoresConnection(client, mode, state) ==
  IF ~client
    THEN Observation("readiness", "unhealthy", Fixed("Inngest client not initialized"), <<>>, <<>>)
    ELSE Observation("readiness", "healthy", Fixed("Service is ready"),
                     IF mode = "connect" THEN <<state>> ELSE <<>>, <<>>)

\* readiness(): `client` is whether getClient() returns one, `state` what
\* getConnectionState() returns
Readiness(client, mode, state) ==
  IF ~client
    THEN Observation("readiness", "unhealthy", Fixed("Inngest client not initialized"), <<>>, <<>>)
  ELSE IF mode = "connect" /\ state # "ACTIVE"
    THEN Observation("readiness", "unhealthy", Reason("Worker not ready: connection state is", state, <<>>),
                     <<state>>, <<>>)
  ELSE Observation("readiness", "healthy", Fixed("Service is ready"),
                   IF mode = "connect" THEN <<state>> ELSE <<>>, <<>>)

\* getHealthStatus(): `count` is getFunctions().length
GetHealthStatus(client, count, mode, state) ==
  IF ~client
    THEN Observation("getHealthStatus", "unhealthy", Fixed("Inngest client not available"), <<>>, <<>>)
  ELSE IF count = 0
    THEN Observation("getHealthStatus", "degraded", Fixed("No functions registered"), <<>>, <<>>)
  ELSE IF mode = "connect" /\ state # "ACTIVE"
    THEN IF state \in {"CONNECTING", "RECONNECTING", "PAUSED"}
           THEN Observation("getHealthStatus", "degraded", Reason("Connection state:", state, <<>>), <<>>, <<>>)
           ELSE Observation("getHealthStatus", "unhealthy", Reason("Connection not active:", state, <<>>), <<>>, <<>>)
  ELSE Observation("getHealthStatus", "healthy", Fixed("Inngest integration is healthy"), <<>>, <<>>)

\* isHealthy() of the health service: status.status === 'healthy'
ServiceIsHealthy(client, count, mode, state) ==
  LET status == GetHealthStatus(client, count, mode, state)
  IN Observation("isHealthy", IF status.status = "healthy" THEN "true" ELSE "false",
                 status.message, <<>>, <<>>)

IndicatorIsHealthyFromState(injected, client, mode, r) ==
  IF ~injected
    THEN Observation("indicator.isHealthy", "down", Fixed("InngestService not available"), <<>>, <<>>)
  ELSE IF ~client
    THEN Observation("indicator.isHealthy", "down", Fixed("Inngest client is not initialized"), <<>>, <<>>)
  ELSE IF mode = "connect"
    THEN Observation("indicator.isHealthy", IF r.verdict.sdkState = "ACTIVE" THEN "up" ELSE "down",
                     r.verdict.reason, <<r.verdict.sdkState>>, <<r.verdict>>)
  ELSE Observation("indicator.isHealthy", "up", Fixed("Inngest client is healthy"), <<>>, <<>>)

\* InngestHealthIndicator.isHealthy(key): `injected` is whether this.inngestService
\* is set, `r` the outcome of this.inngestService.getConnectionHealth()
IndicatorIsHealthy(injected, client, mode, r) ==
  IF ~injected
    THEN Observation("indicator.isHealthy", "down", Fixed("InngestService not available"), <<>>, <<>>)
  ELSE IF ~client
    THEN Observation("indicator.isHealthy", "down", Fixed("Inngest client is not initialized"), <<>>, <<>>)
  ELSE IF mode = "connect"
    THEN IF r.raised
           THEN Observation("indicator.isHealthy", "down", Fixed(ErrorMessage), <<>>, <<>>)
           ELSE Observation("indicator.isHealthy", IF r.verdict.isHealthy THEN "up" ELSE "down",
                            r.verdict.reason, <<r.verdict.sdkState>>, <<r.verdict>>)
  ELSE Observation("indicator.isHealthy", "up", Fixed("Inngest client is healthy"), <<>>, <<>>)

\* InngestHealthIndicator.isReady(key): `state` is what getConnectionState() returns
IndicatorIsReady(injected, client, mode, state) ==
  IF ~injected
    THEN Observation("indicator.isReady", "down", Fixed("InngestService not available"), <<>>, <<>>)
  ELSE IF ~client
    THEN Observation("indicator.isReady", "down", Fixed("Inngest client is not initialized"), <<>>, <<>>)
  ELSE IF mode = "connect" /\ state # "ACTIVE"
    THEN Observation("indicator.isReady", "down", Reason("Worker not ready:", state, <<>>), <<state>>, <<>>)
  ELSE Observation("indicator.isReady", "up", Fixed("Inngest is ready"),
                   IF mode = "connect" THEN <<state>> ELSE <<>>, <<>>)

\* what the observers of the health service and isReady leave alone: everything
\* but the record of the call
ObserverFrame ==
  UNCHANGED <<options, importable, probe, health, aggregator, inngestService, connectModule,
              workerConnection, sdkState, isShuttingDown, handles, est, sd, timers, initialized>>

Quiet == UNCHANGED <<hasLoggedInternalCheckWarning, logs, warnCount>>

\* a call of InngestHealthService.getConnectionHealth()
SummaryCall ==
  /\ observed' = Observation("getConnectionHealth", ConnectionHealthSummary(options.mode, ConnectionState),
                             SummaryMessage(options.mode, ConnectionState),
                             IF options.mode = "connect" THEN <<ConnectionState>> ELSE <<>>, <<>>)
  /\ Quiet /\ ObserverFrame

\* a call of readiness()
ReadinessCall ==
  /\ observed' = Readiness(inngestClient, options.mode, ConnectionState)
  /\ Quiet /\ ObserverFrame

\* a call of getHealthStatus()
GetHealthStatusCall ==
  /\ observed' = GetHealthStatus(inngestClient, functions, options.mode, ConnectionState)
  /\ Quiet /\ ObserverFrame

\* a call of isHealthy() of the health service
ServiceIsHealthyCall ==
  /\ observed' = ServiceIsHealthy(inngestClient, functions, options.mode, ConnectionState)
  /\ Quiet /\ ObserverFrame

\* a call of InngestHealthIndicator.isReady()
IsReadyCall ==
  /\ observed' = IndicatorIsReady(inngestService, inngestClient, options.mode, ConnectionState)
  /\ Quiet /\ ObserverFrame

\* a call of InngestHealthIndicator.isHealthy(): in connect mode it runs
\* getConnectionHealth() on the service, with the warning that call may log,
\* and warns itself about every `down`
IsHealthyCall ==
  LET r == GetConnectionHealth(options.mode, workerConnection, sdkState, probe)
      inspects == inngestService /\ inngestClient /\ options.mode = "connect"
      result == IndicatorIsHealthy(inngestService, inngestClient, options.mode, r)
      fallback == inspects /\ r.threw /\ ~hasLoggedInternalCheckWarning
      warning == IF ~inngestService THEN {<<"warn", "InngestService not injected - health check will fail">>}
                 ELSE IF ~inngestClient THEN {<<"warn", "Inngest client is not initialized">>}
                 ELSE IF inspects /\ result.status = "down" THEN {<<"warn", "Inngest connection unhealthy">>}
                 ELSE {}
  IN /\ observed' = result
     /\ hasLoggedInternalCheckWarning' =
          IF inspects THEN WarnedAfterCatch(hasLoggedInternalCheckWarning, r.threw)
                      ELSE hasLoggedInternalCheckWarning
     /\ logs' = logs \cup warning \cup
                  (IF fallback
                     THEN {<<"warn", "Failed to access SDK internals for health check, falling back to state-only">>}
                     ELSE {})
     /\ warnCount' = IF fallback /\ warnCount < MaxWarnings THEN warnCount + 1 ELSE warnCount
     /\ ObserverFrame

\* The service with nothing in progress, in every shape its connection and the
\* internals of its handle can be read in, with or without registered
\* functions; the indicator constructed with or without the service.
OInit ==
  /\ Quiescent(ConnectionStates, Probes)
  /\ inngestClient = TRUE
  /\ functions \in {0, 1}
  /\ healthCheckInProgress = FALSE
  /\ lastHealthCheck = Unset
  /\ hc = [i \in HcSlots |-> IdleHc]
  /\ memory = [limit |-> Unset, rss |-> 0]
  /\ faults = NoFaults
  /\ inngestService \in BOOLEAN
  /\ observed = NoObservation

ONext ==
  \/ SummaryCall
  \/ ReadinessCall
  \/ GetHealthStatusCall
  \/ ServiceIsHealthyCall
  \/ IsReadyCall
  \/ IsHealthyCall

ObserverSpec == OInit /\ [][ONext]_vars

\* ---- properties ----

Performing(i) == sd[i].pc \in {"race", "closed"}
Performed(i) == sd[i].target # Null
Returned(i) == sd[i].pc = "done"

\* C1: every gracefulShutdown that passed its guard eventually returns, whatever
\* close() and `closed` do, provided the timer fires.
ShutdownEventuallyReturns ==
  \A i \in SdSlots : Performing(i) ~> Returned(i)

\* C2: the step in which a gracefulShutdown that passed its guard returns leaves
\* workerConnection null, on every outcome of the race.
ShutdownReturnClearsHandle ==
  [][\A i \in SdSlots : Performing(i) /\ Returned(i)' => workerConnection' = Null]_vars

GracefulReturnReached ==
  \E i \in SdSlots : Returned(i) /\ sd[i].result = "graceful" /\ workerConnection = Null

\* C3: when close() does not settle the race, the shutdown timer (armed with
\* connect.shutdownTimeout, 30000 ms when not configured) ends it: the race never
\* stays pending, and the shutdown resumed after the timer fired returns without
\* raising and with workerConnection null.
TimeoutEndsShutdown ==
  /\ \A i \in SdSlots : (sd[i].pc = "race") ~> (sd[i].pc # "race")
  /\ [](\A tm \in timers : tm.kind = "shutdown" =>
          /\ sd[tm.owner].pc = "race" => sd[tm.owner].race # "timeout"
          /\ tm.delay = IF options.shutdownTimeout = Unset THEN 30000 ELSE options.shutdownTimeout[1])
  /\ [][\A i \in SdSlots : sd[i].pc = "race" /\ sd[i].race = "timeout" /\ sd[i]' # sd[i]
          => Returned(i)' /\ ~sd[i].raised' /\ workerConnection' = Null]_vars

TimeoutReturnReached ==
  \E i \in SdSlots : /\ Returned(i) /\ sd[i].race = "timeout" /\ ~sd[i].raised
                     /\ handles[sd[i].target].closeP = "pending"
                     /\ workerConnection = Null

\* C4: over all interleavings of the shutdown triggers close() is invoked at most
\* once on a handle; at most one invocation performs the shutdown and every other
\* one has returned as a no-op.
CloseInvokedAtMostOnce ==
  /\ \A h \in HandleIds : handles[h].closeCalls <= 1
  /\ Cardinality({i \in SdSlots : Performed(i)}) <= 1
  /\ \A i \in SdSlots : sd[i].pc # "idle" /\ ~Performed(i) => Returned(i) /\ sd[i].result = "noop"

SecondTriggerDuringRace ==
  \E i, j \in SdSlots : /\ sd[i].pc = "race" /\ sd[i].race = "pending"
                        /\ sd[j].result = "noop"
                        /\ handles[sd[i].target].closeCalls = 1

FlagClearedAfterShutdown ==
  \A i \in SdSlots : Performed(i) /\ Returned(i) => ~isShuttingDown

\* C6 amended: isShuttingDown is set by the shutdown that passes the guard and is
\* never cleared afterwards, on any exit path.
FlagIsLatch ==
  /\ [](\A i \in SdSlots : Performed(i) => isShuttingDown)
  /\ [][isShuttingDown => isShuttingDown']_vars

FlagSetAfterReturn ==
  \E i \in SdSlots : Performed(i) /\ Returned(i) /\ isShuttingDown /\ workerConnection = Null

\* C7: a shutdown request in serve mode, or with no handle held, or while a
\* shutdown is underway, is a no-op: no close(), no timer, handle reference and
\* flag unchanged.
GuardedOutIsNoOp ==
  [][\A i \in SdSlots :
       /\ sd[i].pc = "idle" /\ sd[i]'.pc # "idle"
       /\ (options.mode = "serve" \/ workerConnection = Null \/ isShuttingDown)
       => /\ Returned(i)' /\ sd[i]'.result = "noop" /\ ~sd[i]'.raised
          /\ UNCHANGED <<workerConnection, isShuttingDown, handles, timers, sdkState>>]_vars

NoOpWithoutHandle ==
  \E i \in SdSlots : /\ sd[i].result = "noop" /\ options.mode = "connect"
                     /\ workerConnection = Null /\ ~isShuttingDown

EstablishFailureSetsNothing ==
  /\ [][\A e \in EstSlots : est[e].pc # "done" /\ est[e]'.pc = "done" /\ est[e]'.result # "stored"
          => /\ est[e]'.result \in {"raised", "refused"}
             /\ (est[e].pc \in {"importing", "connecting"} => est[e]'.result = "raised")
             /\ workerConnection' = workerConnection
             /\ ConnectionState' = ConnectionState]_vars
  /\ [](options.mode = "connect" /\ (\A e \in EstSlots : est[e].result # "stored")
          => workerConnection = Null /\ ConnectionState = "CLOSED")

FailureWhileHandleHeld ==
  \E e \in EstSlots : est[e].result = "raised" /\ workerConnection # Null

\* C10: getConnectionState() is NOT_APPLICABLE in serve mode in every reachable
\* state, and no handle is ever stored there; in connect mode it is the held
\* handle's current state, or CLOSED when no handle is held.
StatePinnedOrThroughHandle ==
  /\ options.mode = "serve" => ConnectionState = "NOT_APPLICABLE" /\ workerConnection = Null
  /\ options.mode = "connect" /\ workerConnection = Null => ConnectionState = "CLOSED"
  /\ options.mode = "connect" /\ workerConnection # Null =>
       ConnectionState = sdkState /\ sdkState \in ConnectionStates
  /\ \A e \in EstSlots : est[e].result = "stored" => options.mode = "connect"

ClosedAfterShutdown ==
  /\ options.mode = "connect" /\ ConnectionState = "CLOSED" /\ workerConnection = Null
  /\ \E i \in SdSlots : Performed(i) /\ Returned(i)

\* C11: isConnected() is true exactly when the service runs in connect mode and
\* holds a handle whose coarse state is ACTIVE; it is false in serve mode and
\* whenever no handle is held.
IsConnectedIffActiveHandle ==
  /\ IsConnected(options.mode, sdkState)
       <=> (options.mode = "connect" /\ workerConnection # Null /\ sdkState = "ACTIVE")
  /\ options.mode # "connect" => ~IsConnected(options.mode, sdkState)
  /\ workerConnection = Null => ~IsConnected(options.mode, sdkState)

\* a held handle that has left ACTIVE: isConnected() answers false although a handle is held
HeldHandleNotActive ==
  /\ options.mode = "connect" /\ workerConnection # Null
  /\ sdkState = "RECONNECTING"
  /\ ~IsConnected(options.mode, sdkState)

\* C12: in serve mode getConnectionHealth() always answers isHealthy = true,
\* sdkState = NOT_APPLICABLE, usingInternalCheck = false and null for
\* wsReadyState, pendingHeartbeats and connectionId, whatever was done before.
ServeModeHealthIsFixed ==
  options.mode # "connect" =>
    \A p \in LifecycleProbes :
      LET r == GetConnectionHealth(options.mode, workerConnection, sdkState, p)
      IN /\ ~r.raised /\ ~r.threw
         /\ r.verdict.isHealthy
         /\ r.verdict.sdkState = "NOT_APPLICABLE"
         /\ ~r.verdict.usingInternalCheck
         /\ r.verdict.wsReadyState = <<>>
         /\ r.verdict.pendingHeartbeats = <<>>
         /\ r.verdict.connectionId = <<>>

\* serve mode after the initial registration ran, a manual establishConnection()
\* was refused and a shutdown trigger returned: the answer is still the fixed one
ServeModeAfterOperations ==
  /\ options.mode # "connect"
  /\ initialized /\ timers = {}
  /\ \E e \in ManualSlots : est[e].result = "refused"
  /\ \E i \in SdSlots : Returned(i)
  /\ GetConnectionHealth(options.mode, workerConnection, sdkState, HealthyProbe).verdict.sdkState = "NOT_APPLICABLE"

\* the recorded call was made in connect mode
CalledInConnectMode == health.called /\ options.mode = "connect"
Held == workerConnection # Null
Reads(a) == a \notin probe.throws
CoarseStateAtCall == IF health.rawState = NoValue THEN "CLOSED" ELSE health.rawState

\* C13: in connect mode with no handle held, or with a handle whose
\* currentConnection reads as absent, getConnectionHealth() answers unhealthy,
\* reason "... currentConnection is null", usingInternalCheck = true, whatever
\* the coarse state reads.
NoConnectionIsUnhealthy ==
  (CalledInConnectMode /\ (~Held \/ (Reads("currentConnection") /\ ~probe.currentConnection))) =>
    /\ ~health.raised /\ ~health.threw
    /\ ~health.verdict.isHealthy
    /\ health.verdict.reason.text = "No active connection (currentConnection is null)"
    /\ health.verdict.usingInternalCheck
    /\ health.verdict.sdkState = CoarseStateAtCall

\* a held handle in coarse state ACTIVE without a currentConnection was judged unhealthy
ActiveWithoutConnectionJudged ==
  /\ CalledInConnectMode /\ Held /\ Reads("currentConnection") /\ ~probe.currentConnection
  /\ health.rawState = "ACTIVE"
  /\ ~health.verdict.isHealthy /\ health.verdict.usingInternalCheck

\* C14 as stated: whenever the connectionId accessor throws the verdict is
\* unhealthy with usingInternalCheck = true, for every coarse state and every
\* state of the other internals.
IdentifierFailureIsUnhealthy ==
  (CalledInConnectMode /\ Held /\ ~Reads("connectionId")) =>
    ~health.verdict.isHealthy /\ health.verdict.usingInternalCheck

\* C14 amended: a throwing connectionId accessor is read as a null identifier and
\* decides nothing by itself: the call answers exactly as for the same handle
\* with an undefined connectionId. The verdict is unhealthy with
\* usingInternalCheck = true, for every coarse state, when currentConnection
\* also reads as absent.
IdentifierFailureReadsAsNull ==
  (CalledInConnectMode /\ Held /\ ~Reads("connectionId")) =>
    LET quiet == [probe EXCEPT !.throws = @ \ {"connectionId"}, !.connectionId = <<>>]
        r == GetConnectionHealth(options.mode, workerConnection, health.rawState, quiet)
    IN /\ ~health.raised
       /\ health.verdict = r.verdict /\ health.threw = r.threw
       /\ (Reads("currentConnection") /\ ~probe.currentConnection) =>
             /\ ~health.verdict.isHealthy /\ health.verdict.usingInternalCheck
             /\ health.verdict.connectionId = <<>>

\* connectionId and currentConnection both throw on an ACTIVE handle: the call
\* answered healthy from the coarse state alone
IdentifierFailureJudgedHealthy ==
  /\ CalledInConnectMode /\ Held
  /\ probe.throws = {"connectionId", "currentConnection"}
  /\ health.rawState = "ACTIVE"
  /\ health.verdict.isHealthy /\ ~health.verdict.usingInternalCheck

\* the recorded call reached the transport step: connect mode, a handle whose
\* currentConnection is present, and ws and readyState read without throwing
ReachedTransport ==
  /\ CalledInConnectMode /\ Held
  /\ Reads("currentConnection") /\ probe.currentConnection
  /\ Reads("ws") /\ (probe.ws => Reads("readyState"))
ReadyStateUnreadable == ~probe.ws \/ probe.readyState = <<>>
ReadyStateIs(S) == probe.ws /\ probe.readyState # <<>> /\ probe.readyState[1] \in S

ReachedHeartbeats ==
  ReachedTransport /\ ReadyStateIs({WsOpen}) /\ Reads("pendingHeartbeats") /\ Reads("id")

AccessThrows ==
  /\ Held
  /\ \/ ~Reads("currentConnection")
     \/ /\ probe.currentConnection
        /\ \/ ~Reads("ws")
           \/ probe.ws /\ ~Reads("readyState")
           \/ ~Reads("id")
           \/ probe.ws /\ probe.readyState # <<>> /\ ~Reads("pendingHeartbeats")

\* C19: getConnectionHealth() never raises; when an access to the handle's
\* internals throws during the deep inspection the call returns the global
\* fallback: healthy iff the coarse state is ACTIVE, usingInternalCheck = false,
\* wsReadyState and pendingHeartbeats null.
HealthNeverRaises ==
  health.called =>
    /\ ~health.raised
    /\ health.threw <=> (options.mode = "connect" /\ AccessThrows)
    /\ health.threw =>
          /\ health.verdict.isHealthy <=> (health.rawState = "ACTIVE")
          /\ ~health.verdict.usingInternalCheck
          /\ health.verdict.wsReadyState = <<>> /\ health.verdict.pendingHeartbeats = <<>>
          /\ health.verdict.sdkState = health.rawState
          /\ health.verdict.reason.text \in
                {"Connection appears active (internal check unavailable)",
                 "Connection state is (internal check unavailable)"}

\* pendingHeartbeats threw behind a CLOSED transport on an ACTIVE handle: the
\* call returned the fallback, healthy
ThrowBehindClosedTransport ==
  /\ CalledInConnectMode /\ ReachedTransport /\ ReadyStateIs({3})
  /\ probe.throws = {"pendingHeartbeats"}
  /\ health.rawState = "ACTIVE"
  /\ health.threw /\ ~health.raised /\ health.verdict.isHealthy

\* C20: over any sequence of operations the internal-failure warning is logged
\* at most once: the call that finds the flag unset and whose deep inspection
\* throws logs it and sets the flag, no other call logs, and the flag never
\* goes back to false.
WarnedAtMostOnce ==
  /\ [](warnCount <= 1 /\ (hasLoggedInternalCheckWarning <=> warnCount = 1))
  /\ [][LET Threw(p) == GetConnectionHealth(options.mode, workerConnection, sdkState, p).threw
        IN /\ hasLoggedInternalCheckWarning => hasLoggedInternalCheckWarning'
           /\ (warnCount' # warnCount \/ hasLoggedInternalCheckWarning' # hasLoggedInternalCheckWarning) =>
                /\ ~hasLoggedInternalCheckWarning /\ hasLoggedInternalCheckWarning'
                /\ warnCount' = warnCount + 1
                /\ \E p \in LifecycleProbes : Threw(p) /\ GetConnectionHealthCall(p)
           /\ (~hasLoggedInternalCheckWarning /\ ~hasLoggedInternalCheckWarning') =>
                \A p \in LifecycleProbes : Threw(p) => ~GetConnectionHealthCall(p)]_vars

\* the warning was logged, and the flag is still set after a shutdown ran to its end
WarnedThroughShutdown ==
  /\ hasLoggedInternalCheckWarning /\ warnCount = 1
  /\ \E i \in SdSlots : Returned(i) /\ Performed(i)
  /\ workerConnection = Null

\* C21: getConnectionHealth() is a repeatable, read-only query: a call made
\* while the handle reads as it did at the previous call returns the same
\* verdict (on the fallback path too, where the repeated call logs nothing), and
\* no call changes the handle reference, the isShuttingDown flag or any other
\* service state but the warn-once flag.
HealthCallRepeatableReadOnly ==
  [][health' # health =>
       /\ UNCHANGED <<options, connectModule, workerConnection, sdkState, isShuttingDown,
                      handles, est, sd, timers, initialized>>
       /\ (health.called /\ health.rawState = sdkState) =>
             /\ health'.verdict = health.verdict
             /\ health'.threw = health.threw /\ health'.raised = health.raised
             /\ health.threw => UNCHANGED <<hasLoggedInternalCheckWarning, logs, warnCount>>]_vars

\* a second call on the fallback path: it found the flag already set and the
\* warning is still logged once
RepeatedFallbackCall ==
  /\ CalledInConnectMode /\ Held
  /\ health.threw /\ health.warned
  /\ warnCount = 1

InFlight == {i \in HcSlots : hc[i].pc = "awaiting"}
Enters(i) == hc[i].pc = "idle" /\ hc'[i].pc # "idle"
Returns(i) == hc[i].pc = "awaiting" /\ hc'[i].pc = "done"
Computed(i) == hc[i].pc = "done" /\ hc[i].fanout /\ ~hc[i].threw
ShortCircuited(i) == hc[i].pc = "done" /\ ~hc[i].fanout

\* C22: at most one checkHealth() fan-out is in flight at any time: a call made
\* while healthCheckInProgress is set launches none of the three checks and
\* returns without awaiting them.
OneFanOutInFlight ==
  /\ [](Cardinality(InFlight) <= 1 /\ (healthCheckInProgress <=> InFlight # {}))
  /\ [][\A i \in HcSlots :
          (Enters(i) /\ healthCheckInProgress) =>
            /\ hc'[i].pc = "done" /\ ~hc'[i].fanout
            /\ hc'[i].checks = NoChecks
            /\ InFlight' = InFlight]_vars

\* a call returned at once while another one was awaiting its checks
ReturnedDuringFanOut ==
  \E i, j \in HcSlots : i < j /\ hc[i].pc = "awaiting" /\ ShortCircuited(j)

\* invocation j was made while the fan-out of invocation i was in flight
Overlapped(i, j) ==
  /\ i < j /\ hc[i].fanout /\ ShortCircuited(j)
  /\ \A k \in HcSlots : (i < k /\ k < j) => ~hc[k].fanout
\* the last invocation before i whose computation completed
LastComputedBefore(i, k) ==
  /\ k < i /\ Computed(k)
  /\ \A m \in HcSlots : (k < m /\ m < i) => ~Computed(m)

\* C23 as stated: of two overlapping checkHealth() calls the second launches no
\* fan-out and both return the same SystemHealth.
OverlappingCallsShareResult ==
  \A i, j \in HcSlots :
    (Overlapped(i, j) /\ hc[i].pc = "done") =>
      ~hc[j].fanout /\ hc[j].returned = hc[i].returned

\* C23 amended: the second of two overlapping calls launches no fan-out and
\* returns at once what was cached when it was made, the SystemHealth of the last
\* computation completed before the first call, or a fresh all-unhealthy
\* response when there is none; the first returns the SystemHealth it builds
\* itself, a different object.
OverlappingCallReturnsCache ==
  \A i, j \in HcSlots :
    Overlapped(i, j) =>
      /\ ~hc[j].fanout /\ hc[j].send = "none"
      /\ \A k \in HcSlots : LastComputedBefore(i, k) => hc[j].returned = hc[k].returned
      /\ (\A k \in HcSlots : ~LastComputedBefore(i, k)) => hc[j].returned = <<CreateUnhealthyResponse(j)>>
      /\ hc[i].pc = "done" => hc[i].returned[1].by = i /\ hc[i].returned # hc[j].returned

\* the third call overlapped the second and returned the result of the first,
\* while the second went on to return its own
StaleResultReturned ==
  /\ Computed(1) /\ Computed(2) /\ Overlapped(2, 3)
  /\ hc[3].returned = hc[1].returned
  /\ hc[2].returned[1].overall # hc[3].returned[1].overall

\* the invocation of ChecksSpec
TheCheck == hc[1]
FallbackMessage(c) ==
  IF c = "inngest" THEN "Inngest connectivity check failed"
  ELSE IF c = "functions" THEN "Functions check failed" ELSE "Memory check failed"

\* C24: checkHealth() never raises, and when one of its three checks rejects
\* that check alone is reported unhealthy with the error message while the other
\* two are reported exactly as they settled.
PartialFailureTolerated ==
  /\ ~TheCheck.raised
  /\ TheCheck.pc = "done" => TheCheck.returned # Unset
  /\ (TheCheck.pc = "done" /\ ~TheCheck.threw) =>
        \A c \in Checks :
          /\ faults[c] = "nullish" <=> TheCheck.checks[c].status = "rejected"
          /\ TheCheck.checks[c].status = "rejected" =>
                /\ TheCheck.returned[1].checks[c].status = "unhealthy"
                /\ TheCheck.returned[1].checks[c].message = FallbackMessage(c)
                /\ TheCheck.returned[1].checks[c].error = <<TypeErrorMessage>>
          /\ TheCheck.checks[c].status = "fulfilled" =>
                TheCheck.returned[1].checks[c] = TheCheck.checks[c].value

\* the functions check rejected alone: it is reported unhealthy between a healthy
\* connectivity check and a degraded memory check
OneCheckRejected ==
  /\ TheCheck.pc = "done" /\ ~TheCheck.threw
  /\ faults = [NoFaults EXCEPT !["functions"] = "nullish"]
  /\ TheCheck.returned[1].checks.functions.error = <<TypeErrorMessage>>
  /\ TheCheck.returned[1].checks.inngest.status = "healthy"
  /\ TheCheck.returned[1].checks.memory.status = "degraded"

\* C25: the overall status of a completed computation is unhealthy if any check
\* is unhealthy, otherwise degraded if any is degraded, otherwise healthy.
OverallFollowsPrecedence ==
  (TheCheck.pc = "done" /\ ~TheCheck.threw) =>
    LET h == TheCheck.returned[1]
        With(status) == {c \in Checks : h.checks[c].status = status}
    IN /\ h.overall = "unhealthy" <=> With("unhealthy") # {}
       /\ h.overall = "degraded" <=> (With("unhealthy") = {} /\ With("degraded") # {})
       /\ h.overall = "healthy" <=> With("healthy") = Checks

\* an unhealthy check beside a degraded one: overall is unhealthy
UnhealthyOutranksDegraded ==
  /\ TheCheck.pc = "done" /\ ~TheCheck.threw
  /\ TheCheck.returned[1].checks.functions.status = "degraded"
  /\ TheCheck.returned[1].checks.memory.status = "unhealthy"
  /\ TheCheck.returned[1].checks.inngest.status = "healthy"
  /\ TheCheck.returned[1].overall = "unhealthy"

\* C26: the in-flight flag is released on every exit path: when a call that set
\* it returns, normally or after the aggregation threw, the flag is false, and
\* the next call launches a fresh fan-out.
FlagReleasedOnReturn ==
  /\ [](InFlight = {} => ~healthCheckInProgress)
  /\ [][\A i \in HcSlots :
          /\ Returns(i) => ~healthCheckInProgress'
          /\ (Enters(i) /\ InFlight = {}) => hc'[i].fanout /\ hc'[i].pc = "awaiting"]_vars

\* a computation ended in the error path and the next call fanned out again
FanOutAfterFailedAggregation ==
  \E i, j \in HcSlots :
    /\ i < j /\ hc[i].pc = "done" /\ hc[i].fanout /\ hc[i].threw
    /\ hc[j].fanout /\ hc[j].pc = "awaiting"

DiagnosticsUnhealthy ==
  /\ options.mode = "connect"
  /\ ~GetConnectionHealth(options.mode, workerConnection, sdkState, probe).verdict.isHealthy

MemoryClassified ==
  (TheCheck.fanout /\ faults.memory = "none") =>
    LET limit == IF memory.limit = Unset THEN 512 ELSE memory.limit[1]
        \* resident memory and the limit in tenths of a MB
        used == memory.rss
        full == 10 * limit
        status == TheCheck.checks.memory.value.status
    IN /\ TheCheck.checks.memory.status = "fulfilled"
       /\ status = "unhealthy" <=> 100 * used > 90 * full
       /\ status = "degraded" <=> (100 * used > 75 * full /\ 100 * used <= 90 * full)
       /\ status = "healthy" <=> 100 * used <= 75 * full

\* resident memory at exactly 90% of the default limit was classified degraded
ExactlyNinetyPercent ==
  /\ TheCheck.fanout /\ faults.memory = "none"
  /\ memory.limit = Unset /\ 10 * memory.rss = 9 * 10 * DefaultMemoryLimit
  /\ TheCheck.checks.memory.value.status = "degraded"

\* C30: the connection health summary is healthy in serve mode; in connect mode
\* it is healthy only for ACTIVE, degraded for CONNECTING, RECONNECTING and
\* PAUSED, and unhealthy for CLOSING, CLOSED and when no handle is held.
SummaryFollowsCoarseState ==
  LET status == ConnectionHealthSummary(options.mode, ConnectionState)
  IN /\ options.mode # "connect" => status = "healthy"
     /\ options.mode = "connect" =>
          /\ status = "healthy" <=> (workerConnection # Null /\ sdkState = "ACTIVE")
          /\ status = "degraded" <=>
                (workerConnection # Null /\ sdkState \in {"CONNECTING", "RECONNECTING", "PAUSED"})
          /\ status = "unhealthy" <=>
                (workerConnection = Null \/ sdkState \in {"CLOSING", "CLOSED"})

\* a PAUSED handle is summarised as degraded
PausedIsDegraded ==
  /\ options.mode = "connect" /\ workerConnection # Null /\ sdkState = "PAUSED"
  /\ ConnectionHealthSummary(options.mode, ConnectionState) = "degraded"

\* C31: the connection health summary is built on the tiered diagnostics: in
\* connect mode, whenever getConnectionHealth() of the service reports
\* isHealthy = false (transport not OPEN, currentConnection absent, ...), the
\* summary's status is not healthy.
SummaryBuiltOnDiagnostics ==
  (observed.op = "getConnectionHealth" /\ DiagnosticsUnhealthy) => observed.status # "healthy"

\* C32: in connect mode readiness() is unhealthy whenever the coarse state is
\* not ACTIVE (no handle held, as before any connection and after a shutdown,
\* or a handle in another state) and healthy when it is ACTIVE; in serve mode
\* the connection never makes it unhealthy.
ReadinessFollowsCoarseState ==
  observed.op = "readiness" =>
    LET active == workerConnection # Null /\ sdkState = "ACTIVE"
    IN /\ ~observed.raised
       /\ options.mode = "connect" =>
            /\ observed.status = "healthy" <=> active
            /\ observed.status = "unhealthy" <=> ~active
            /\ observed.connectionState = <<IF workerConnection = Null THEN "CLOSED" ELSE sdkState>>
       /\ options.mode # "connect" => observed.status = "healthy"

\* readiness() was called in connect mode while no handle is held, with
\* functions registered: unhealthy, reporting the state CLOSED
NotReadyWithoutHandle ==
  /\ observed.op = "readiness"
  /\ options.mode = "connect" /\ workerConnection = Null /\ functions > 0
  /\ observed.status = "unhealthy" /\ observed.connectionState = <<"CLOSED">>

\* C33: InngestHealthIndicator.isHealthy never raises; without an injected
\* service it is down; in connect mode it is up exactly when
\* getConnectionHealth() of the service reports isHealthy, hence only for a
\* handle in state ACTIVE, and it reports the state CLOSED while no handle is
\* held; in serve mode it is up whenever the client is initialized.
IndicatorFollowsDiagnostics ==
  observed.op = "indicator.isHealthy" =>
    LET v == GetConnectionHealth(options.mode, workerConnection, sdkState, probe).verdict
    IN /\ ~observed.raised
       /\ observed.status \in {"up", "down"}
       /\ ~inngestService => observed.status = "down"
       /\ (inngestService /\ options.mode = "connect") =>
            /\ observed.status = "up" <=> v.isHealthy
            /\ observed.status = "up" => (workerConnection # Null /\ sdkState = "ACTIVE")
            /\ workerConnection = Null =>
                 observed.status = "down" /\ observed.connectionState = <<"CLOSED">>
       /\ (inngestService /\ options.mode # "connect" /\ inngestClient) => observed.status = "up"

\* isHealthy was called on a handle in state ACTIVE whose transport is CLOSED:
\* it reported down
DownOnStaleConnection ==
  /\ observed.op = "indicator.isHealthy"
  /\ inngestService /\ options.mode = "connect"
  /\ workerConnection # Null /\ sdkState = "ACTIVE"
  /\ probe.throws = {} /\ probe.currentConnection /\ probe.ws /\ probe.readyState = <<3>>
  /\ observed.status = "down"

\* C34 as stated: in every verdict of getConnectionHealth(), usingInternalCheck
\* is true if and only if the verdict's wsReadyState is non-null.
InternalCheckIffTransportRead ==
  health.called => (health.verdict.usingInternalCheck <=> health.verdict.wsReadyState # <<>>)

\* C34 amended: usingInternalCheck is false exactly when the verdict rests on the
\* coarse state alone (serve mode, readyState not a number, or the inspection
\* threw); it is true when the verdict comes from the handle's internals, which
\* is the case whenever wsReadyState is non-null and also when currentConnection
\* was found absent, the one verdict with usingInternalCheck true and
\* wsReadyState null.
InternalCheckIffInternalsDecided ==
  health.called =>
    LET v == health.verdict
        absent == ~(Held /\ probe.currentConnection)
    IN /\ v.wsReadyState # <<>> => v.usingInternalCheck
       /\ options.mode # "connect" => ~v.usingInternalCheck
       /\ (CalledInConnectMode /\ health.threw) => ~v.usingInternalCheck
       /\ (CalledInConnectMode /\ ~health.threw) =>
            /\ v.usingInternalCheck <=> (absent \/ ~ReadyStateUnreadable)
            /\ (v.usingInternalCheck /\ v.wsReadyState = <<>>) <=> absent
            /\ ~v.usingInternalCheck =>
                 v.isHealthy = (CoarseStateAtCall = "ACTIVE")

\* a held handle without currentConnection was judged: usingInternalCheck is
\* true although no readyState was read
InternalCheckWithoutTransport ==
  /\ CalledInConnectMode /\ Held /\ ~health.threw
  /\ ~probe.currentConnection
  /\ health.verdict.usingInternalCheck
  /\ health.verdict.wsReadyState = <<>>

\* C35: once a shutdown trigger has run to completion (and no other is still
\* closing the handle), the service holds no handle, whatever an
\* establishConnection() that was pending at that moment does afterwards.
NoHandleAfterShutdown ==
  ((\E i \in SdSlots : Returned(i)) /\ (\A j \in SdSlots : ~Performing(j))) =>
    workerConnection = Null

\* C36: no handle is dropped without being closed: every handle a successful
\* connect() returned is still the service's current handle or has had close()
\* invoked on it, and the handle whose `closed` signal a shutdown awaits is the
\* one it called close() on.
NoHandleDroppedUnclosed ==
  /\ \A h \in HandleIds :
       handles[h].issued => (workerConnection = h \/ handles[h].closeCalls > 0)
  /\ \A i \in SdSlots : sd[i].pc = "closed" => sd[i].awaiting = sd[i].target

\* C37: in connect mode, on every path of getConnectionHealth() (all-clear,
\* state-only fallback, global fallback), isHealthy = true implies that the
\* coarse state is ACTIVE, that is, that isConnected() is true in the state
\* the call was made in.
HealthyImpliesConnected ==
  (CalledInConnectMode /\ health.verdict.isHealthy) =>
    /\ Held
    /\ health.rawState = "ACTIVE"
    /\ IsConnected(options.mode, health.rawState)

\* the inspection of an ACTIVE handle threw and the global fallback judged it healthy
HealthyThroughGlobalFallback ==
  /\ CalledInConnectMode /\ Held
  /\ health.threw /\ ~health.verdict.usingInternalCheck
  /\ health.rawState = "ACTIVE"
  /\ health.verdict.isHealthy

\* C38: isReady of the indicator is at least as strict as isHealthy: in every
\* state of the service, if isReady reports up then isHealthy reports up too.
ReadyImpliesHealthy ==
  (observed.op = "indicator.isReady" /\ observed.status = "up") =>
    IndicatorIsHealthy(inngestService, inngestClient, options.mode,
                       GetConnectionHealth(options.mode, workerConnection, sdkState, probe)).status = "up"

\* C39: in connect mode with an initialized client, getHealthStatus() reports
\* unhealthy whenever the coarse state is CLOSING or CLOSED and degraded
\* whenever it is CONNECTING, RECONNECTING or PAUSED, however many functions
\* are registered (zero included); isHealthy() of the health service is false
\* in all those states.
StatusFollowsConnection ==
  (options.mode = "connect" /\ inngestClient) =>
    /\ observed.op = "getHealthStatus" =>
         /\ ConnectionState \in {"CLOSING", "CLOSED"} => observed.status = "unhealthy"
         /\ ConnectionState \in {"CONNECTING", "RECONNECTING", "PAUSED"} => observed.status = "degraded"
    /\ (observed.op = "isHealthy" /\ ConnectionState # "ACTIVE") => observed.status = "false"

====
